---- MODULE Spec2Model ----
(***************************************************************************)
(* A model of inventory.py, the NetBox dynamic inventory script.  One run  *)
(* of NetboxInventory.__init__ is a sequential process: it reads the       *)
(* command line flags, issues HTTP GETs against the NetBox API (the        *)
(* environment answers each GET nondeterministically, with a status and a  *)
(* JSON body), aggregates one record per device, folds the records into    *)
(* the inventory document and prints it.                                   *)
(***************************************************************************)
EXTENDS Integers, Sequences, FiniteSets, TLC

VARIABLES
    args,             \* the parsed command line: [list, host]
    pc,               \* position of the run inside __init__ / _process_devices
    exc,              \* the uncaught exception that ended the run, or "None"
    requests,         \* every GET issued so far, with the answer it received
    results,          \* devices['results'] of _process_devices
    di,               \* index of the device the loop of line 149 is at
    interfaces,       \* local `interfaces` of _process_devices (line 150)
    vlans,            \* local `vlans` (line 151)
    device_ip,        \* local `device_ip` (line 152)
    device_ssh_port,  \* local `device_ssh_port` (line 153)
    int_list,         \* local `int_list` (line 155)
    ii,               \* index of the interface the loop of line 156 is at
    device_list,      \* local `device_list`, returned as self.devices
    inventory,        \* self.inventory
    stdout            \* the documents printed so far

vars == <<args, pc, exc, requests, results, di, interfaces, vlans, device_ip,
          device_ssh_port, int_list, ii, device_list, inventory, stdout>>

----------------------------------------------------------------------------
(* JSON / Python values.  Every value carries its type, so that None, an   *)
(* empty list, an empty dict and an empty string stay distinct and Python's *)
(* truth test can be computed as Python computes it.  A string is the      *)
(* sequence of its characters; a dict is a function from its keys.         *)

None == [t |-> "null"]
Str(s) == [t |-> "str", v |-> s]
Num(n) == [t |-> "int", v |-> n]
Lst(l) == [t |-> "list", v |-> l]
Obj(f) == [t |-> "dict", v |-> f]

EmptyDict == Obj(<<>>)

\* Python's truth value of an object, as tested by `if x:`.
Truthy(j) ==
    CASE j.t = "null" -> FALSE
      [] j.t = "int"  -> j.v # 0
      [] j.t = "str"  -> Len(j.v) > 0
      [] j.t = "list" -> Len(j.v) > 0
      [] j.t = "dict" -> DOMAIN j.v # {}

\* A variant of split_first that keeps the characters before the last '/'
\* (s.rsplit('/', 1)[0]).
split_before_last(s) ==
    LET slashes == {k \in 1..Len(s) : s[k] = "/"}
    IN  IF slashes = {} THEN s
        ELSE SubSeq(s, 1, (CHOOSE k \in slashes : \A j \in slashes : j <= k) - 1)

\* s.split('/')[0]: the characters of s before its first '/', all of s when
\* it holds none.
RECURSIVE split_first(_)
split_first(s) ==
    IF s = <<>> THEN <<>>
    ELSE IF Head(s) = "/" THEN <<>>
    ELSE <<Head(s)>> \o split_first(Tail(s))

\* Every sequence over S of length at most n.
SeqsUpTo(S, n) == UNION {[1..k -> S] : k \in 0..n}

----------------------------------------------------------------------------
(* The records the NetBox API returns, as far as the script reads them.    *)

Device(id, name) == Obj([id |-> Num(id), name |-> name])
Vlan(vid) == Obj([vid |-> Num(vid)])
Interface(id, name, tagged, untagged) ==
    Obj([id |-> Num(id), name |-> name,
         tagged_vlans |-> tagged, untagged_vlan |-> untagged])
Detail(primary_ip, custom_fields) ==
    Obj([primary_ip |-> primary_ip, custom_fields |-> custom_fields])
PrimaryIp(address) == Obj([address |-> Str(address)])
IpAddress(address) == Obj([address |-> Str(address)])
\* A paginated collection: the records sit under the key 'results'.
Page(seq) == Obj([results |-> Lst(seq)])

----------------------------------------------------------------------------
(* The pure parts of the script.                                           *)

\* A variant of raise_for_status that lets a 4xx status pass.
raise_for_server_error(status) == status >= 500 /\ status < 600

\* Response.raise_for_status(): raises HTTPError on a 4xx or 5xx status.
raise_for_status(status) == status >= 400 /\ status < 600

\* A variant of list_mode that also queries the API for --host.
list_or_host_mode(a) == a.list \/ Truthy(a.host)

\* __init__, line 45: the branch that queries the API.
list_mode(a) == a.list

\* A variant of device_primary_ip that answers '' for a missing primary_ip.
device_primary_ip_or_empty(detail) ==
    IF Truthy(detail.v.primary_ip)
    THEN Str(split_first(detail.v.primary_ip.v.address.v))
    ELSE Str(<<>>)

\* _device_primary_ip, lines 95-99, applied to the detail record.
device_primary_ip(detail) ==
    IF Truthy(detail.v.primary_ip)
    THEN Str(split_first(detail.v.primary_ip.v.address.v))
    ELSE None

\* _device_ssh_port, line 106: the custom field block is read only when true.
has_custom_fields(detail) == Truthy(detail.v.custom_fields)

\* _device_ssh_port, line 107: custom_fields['ASN'] raises KeyError when the
\* key is missing.
asn_missing(detail) == "ASN" \notin DOMAIN detail.v.custom_fields.v

\* _device_ssh_port, lines 106-109, when it does not raise.
device_ssh_port_of(detail) ==
    IF has_custom_fields(detail) THEN detail.v.custom_fields.v.ASN ELSE None

\* A variant of tagged_vlan_list that leaves tagged_vlans null when the
\* interface has none.
tagged_vlan_list_or_none(interface) ==
    IF Truthy(interface.v.tagged_vlans)
    THEN Lst([k \in 1..Len(interface.v.tagged_vlans.v) |->
                 interface.v.tagged_vlans.v[k].v.vid])
    ELSE None

\* _process_interface_vlans, lines 118-122.
tagged_vlan_list(interface) ==
    IF Truthy(interface.v.tagged_vlans)
    THEN Lst([k \in 1..Len(interface.v.tagged_vlans.v) |->
                 interface.v.tagged_vlans.v[k].v.vid])
    ELSE Lst(<<>>)

\* _process_interface_vlans, lines 123-126.
untagged_vid(interface) ==
    IF Truthy(interface.v.untagged_vlan)
    THEN interface.v.untagged_vlan.v.vid
    ELSE None

\* _process_interface_vlans, lines 129-134.
vlan_map(interface) ==
    [interface     |-> interface.v.name,
     int_id        |-> interface.v.id,
     untagged_vlan |-> untagged_vid(interface),
     tagged_vlans  |-> tagged_vlan_list(interface)]

\* _process_interface_vlans, lines 116-138, applied to the interfaces fetched.
process_interface_vlans(ifs) == [k \in 1..Len(ifs) |-> vlan_map(ifs[k])]

\* A variant of interface_hash that keeps only the address strings.
interface_hash_addresses(interface, ip_addr) ==
    [interface_name |-> interface.v.name,
     interface_id   |-> interface.v.id,
     ip_address     |-> Lst([k \in 1..Len(ip_addr.v) |->
                                ip_addr.v[k].v.address])]

\* _process_devices, lines 157-165.
interface_hash(interface, ip_addr) ==
    [interface_name |-> interface.v.name,
     interface_id   |-> interface.v.id,
     ip_address     |-> ip_addr]

\* _process_devices, lines 168-175.
device_hash(device, ip, port, ints, vl) ==
    [id               |-> device.v.id,
     ansible_ssh_host |-> ip,
     ansible_ssh_port |-> port,
     name             |-> device.v.name,
     interfaces       |-> ints,
     vlans            |-> vl]

\* create_inventory_output, lines 221-225.
all_vars ==
    [ansible_ssh_user |-> "vagrant",
     ansible_network_os |-> "eos",
     ansible_ssh_private_key_file |-> "~/.vagrant.d/insecure_private_key"]

\* create_inventory_output, lines 230-235.
hostvars_entry(device) ==
    [ansible_host |-> device.ansible_ssh_host,
     ansible_port |-> device.ansible_ssh_port,
     interfaces   |-> device.interfaces,
     vlans        |-> device.vlans]

\* A variant of add_device that lists a name once.
add_device_once(result, device) ==
    [hosts    |-> IF device.name \in DOMAIN result.hostvars
                  THEN result.hosts ELSE Append(result.hosts, device.name),
     hostvars |-> (device.name :> hostvars_entry(device)) @@ result.hostvars]

\* A variant of add_device that keeps the entry a name already has.
add_device_first_wins(result, device) ==
    [hosts    |-> Append(result.hosts, device.name),
     hostvars |-> result.hostvars @@ (device.name :> hostvars_entry(device))]

\* create_inventory_output, lines 228-236: one pass of the loop.  The entry
\* is stored under the name (replacing an entry already there) and the name
\* is appended to the host list.
add_device(result, device) ==
    [hosts    |-> Append(result.hosts, device.name),
     hostvars |-> (device.name :> hostvars_entry(device)) @@ result.hostvars]

RECURSIVE fold_devices(_, _)
fold_devices(result, devices) ==
    IF devices = <<>> THEN result
    ELSE fold_devices(add_device(result, Head(devices)), Tail(devices))

\* create_inventory_output, lines 207-238.
create_inventory_output(devices) ==
    LET r == fold_devices([hosts |-> <<>>, hostvars |-> <<>>], devices)
    IN  ("all" :> [hosts |-> r.hosts, vars |-> all_vars])
        @@ ("_meta" :> [hostvars |-> r.hostvars])

\* _empty_inventory, lines 241-242.
empty_inventory == ("_meta" :> [hostvars |-> <<>>])

----------------------------------------------------------------------------
(* The run.  Each GET is one step; the API answers it with any status of   *)
(* Statuses and any body of the set the step is given.                     *)

\* A local that is not assigned yet: Unbound for a scalar, the empty tuple
\* for a list.
Unbound == [t |-> "unbound"]

Statuses == {200, 404, 500}

HostArgs == {None, Str(<<"s", "w", "1">>)}

Init ==
    /\ args \in [list : BOOLEAN, host : HostArgs]
    /\ pc = "start"
    /\ exc = "None"
    /\ requests = <<>>
    /\ results = <<>>
    /\ di = 0
    /\ interfaces = <<>>
    /\ vlans = <<>>
    /\ device_ip = Unbound
    /\ device_ssh_port = Unbound
    /\ int_list = <<>>
    /\ ii = 0
    /\ device_list = <<>>
    /\ inventory = <<>>
    /\ stdout = <<>>

\* _api_call, lines 60-62: the GET as it is issued and answered.  `via` is
\* the calling method, `dev` the pass of the device loop it belongs to.
api_call(via, endpoint, id, status, body) ==
    [via |-> via, endpoint |-> endpoint, id |-> id, dev |-> di,
     status |-> status, body |-> body]

\* An exception nobody catches ends the run before line 54.
raise(e) == pc' = "exited" /\ exc' = e

\* __init__ lines 45-46 and _process_devices lines 145-149.
DeviceList(bodies) ==
    /\ pc = "start"
    /\ list_mode(args)
    /\ \E status \in Statuses, body \in bodies :
         /\ requests' = Append(requests,
                api_call("_device_list", "dcim/devices", None, status, body))
         /\ IF raise_for_status(status)
            THEN raise("HTTPError") /\ UNCHANGED <<results, di, device_list>>
            ELSE /\ results' = body.v.results.v
                 /\ device_list' = <<>>
                 /\ di' = 1
                 /\ pc' = IF body.v.results.v = <<>>
                          THEN "create_inventory_output" ELSE "interfaces"
                 /\ exc' = exc
    /\ UNCHANGED <<args, interfaces, vlans, device_ip, device_ssh_port,
                   int_list, ii, inventory, stdout>>

\* _process_devices line 150, _device_interfaces lines 80-81.
DeviceInterfaces(bodies) ==
    /\ pc = "interfaces"
    /\ \E status \in Statuses, body \in bodies :
         /\ requests' = Append(requests,
                api_call("_device_interfaces", "dcim/interfaces/?device_id=",
                         results[di].v.id, status, body))
         /\ IF raise_for_status(status)
            THEN raise("HTTPError") /\ UNCHANGED interfaces
            ELSE /\ interfaces' = body.v.results.v
                 /\ pc' = "vlans"
                 /\ exc' = exc
    /\ UNCHANGED <<args, results, di, vlans, device_ip, device_ssh_port,
                   int_list, ii, device_list, inventory, stdout>>

\* _process_devices line 151, _process_interface_vlans lines 115-138.
ProcessInterfaceVlans(bodies) ==
    /\ pc = "vlans"
    /\ \E status \in Statuses, body \in bodies :
         /\ requests' = Append(requests,
                api_call("_process_interface_vlans",
                         "dcim/interfaces/?device_id=",
                         results[di].v.id, status, body))
         /\ IF raise_for_status(status)
            THEN raise("HTTPError") /\ UNCHANGED vlans
            ELSE /\ vlans' = process_interface_vlans(body.v.results.v)
                 /\ pc' = "primary_ip"
                 /\ exc' = exc
    /\ UNCHANGED <<args, results, di, interfaces, device_ip, device_ssh_port,
                   int_list, ii, device_list, inventory, stdout>>

\* _process_devices line 152, _device_primary_ip lines 94-99.
DevicePrimaryIp(bodies) ==
    /\ pc = "primary_ip"
    /\ \E status \in Statuses, body \in bodies :
         /\ requests' = Append(requests,
                api_call("_device_primary_ip", "dcim/devices/",
                         results[di].v.id, status, body))
         /\ IF raise_for_status(status)
            THEN raise("HTTPError") /\ UNCHANGED device_ip
            ELSE /\ device_ip' = device_primary_ip(body)
                 /\ pc' = "ssh_port"
                 /\ exc' = exc
    /\ UNCHANGED <<args, results, di, interfaces, vlans, device_ssh_port,
                   int_list, ii, device_list, inventory, stdout>>

\* _process_devices lines 153-155, _device_ssh_port lines 105-109.
DeviceSshPort(bodies) ==
    /\ pc = "ssh_port"
    /\ \E status \in Statuses, body \in bodies :
         /\ requests' = Append(requests,
                api_call("_device_ssh_port", "dcim/devices/",
                         results[di].v.id, status, body))
         /\ IF raise_for_status(status)
            THEN raise("HTTPError")
                 /\ UNCHANGED <<device_ssh_port, int_list, ii>>
            ELSE IF has_custom_fields(body) /\ asn_missing(body)
            THEN raise("KeyError")
                 /\ UNCHANGED <<device_ssh_port, int_list, ii>>
            ELSE /\ device_ssh_port' = device_ssh_port_of(body)
                 /\ int_list' = <<>>
                 /\ ii' = 1
                 /\ pc' = "interface_ip"
                 /\ exc' = exc
    /\ UNCHANGED <<args, results, di, interfaces, vlans, device_ip,
                   device_list, inventory, stdout>>

\* _process_devices lines 156-166, _interface_ip lines 87-88: one pass of the
\* interface loop.
InterfaceIp(bodies) ==
    /\ pc = "interface_ip"
    /\ ii <= Len(interfaces)
    /\ \E status \in Statuses, body \in bodies :
         /\ requests' = Append(requests,
                api_call("_interface_ip", "ipam/ip-addresses/?interface_id=",
                         interfaces[ii].v.id, status, body))
         /\ IF raise_for_status(status)
            THEN raise("HTTPError") /\ UNCHANGED <<int_list, ii>>
            ELSE /\ int_list' = Append(int_list,
                        interface_hash(interfaces[ii], body.v.results))
                 /\ ii' = ii + 1
                 /\ pc' = pc
                 /\ exc' = exc
    /\ UNCHANGED <<args, results, di, interfaces, vlans, device_ip,
                   device_ssh_port, device_list, inventory, stdout>>

\* _process_devices lines 168-178: the end of one pass of the device loop.
AppendDevice ==
    /\ pc = "interface_ip"
    /\ ii > Len(interfaces)
    /\ device_list' = Append(device_list,
            device_hash(results[di], device_ip, device_ssh_port, int_list, vlans))
    /\ di' = di + 1
    /\ pc' = IF di = Len(results) THEN "create_inventory_output" ELSE "interfaces"
    /\ UNCHANGED <<args, exc, requests, results, interfaces, vlans, device_ip,
                   device_ssh_port, int_list, ii, inventory, stdout>>

\* __init__ line 47.
CreateInventoryOutput ==
    /\ pc = "create_inventory_output"
    /\ inventory' = create_inventory_output(device_list)
    /\ pc' = "print"
    /\ UNCHANGED <<args, exc, requests, results, di, interfaces, vlans,
                   device_ip, device_ssh_port, int_list, ii, device_list, stdout>>

\* __init__ lines 49-50.
HostBranch ==
    /\ pc = "start"
    /\ ~list_mode(args)
    /\ Truthy(args.host)
    /\ inventory' = empty_inventory
    /\ pc' = "print"
    /\ UNCHANGED <<args, exc, requests, results, di, interfaces, vlans,
                   device_ip, device_ssh_port, int_list, ii, device_list, stdout>>

\* __init__ lines 51-52.
ElseBranch ==
    /\ pc = "start"
    /\ ~list_mode(args)
    /\ ~Truthy(args.host)
    /\ inventory' = empty_inventory
    /\ pc' = "print"
    /\ UNCHANGED <<args, exc, requests, results, di, interfaces, vlans,
                   device_ip, device_ssh_port, int_list, ii, device_list, stdout>>

\* __init__ line 54.  json.dumps writes the document whole; stdout keeps the
\* document that was serialised.
PrintInventory ==
    /\ pc = "print"
    /\ stdout' = Append(stdout, inventory)
    /\ pc' = "exited"
    /\ UNCHANGED <<args, exc, requests, results, di, interfaces, vlans,
                   device_ip, device_ssh_port, int_list, ii, device_list,
                   inventory>>

\* One step of a run against an API that answers from the sets of E.
Run(E) ==
    \/ DeviceList(E.device_pages)
    \/ DeviceInterfaces(E.interface_pages)
    \/ ProcessInterfaceVlans(E.vlan_pages)
    \/ DevicePrimaryIp(E.ip_details)
    \/ DeviceSshPort(E.port_details)
    \/ InterfaceIp(E.address_pages)
    \/ AppendDevice
    \/ CreateInventoryOutput
    \/ HostBranch
    \/ ElseBranch
    \/ PrintInventory

----------------------------------------------------------------------------
(* What the API may answer.  A whole run over several devices is checked   *)
(* against small answers (Api); the answers one method transforms are      *)
(* drawn from larger sets in a run over one device (InterfaceApi, VlanApi, *)
(* DetailApi).                                                             *)

MaxDevices == 2
MaxIfaces == 2
MaxAddrLen == 3

SW1 == Str(<<"s", "w", "1">>)
SW2 == Str(<<"s", "w", "2">>)
Eth0 == Str(<<"e", "0">>)
Eth1 == Str(<<"e", "1">>)
Port22 == Str(<<"2", "2">>)

Pages(lists) == {Page(l) : l \in lists}

\* Three devices, two of which share a name.
Devices == {Device(1, SW1), Device(2, SW1), Device(3, SW2)}
PlainInterface == Interface(10, Eth0, None, None)
OtherInterface == Interface(11, Eth1, None, None)
PlainAddress == IpAddress(<<"2", "/", "8">>)
PlainDetails ==
    {Detail(None, None),
     Detail(PrimaryIp(<<"1", "/", "8">>), Obj([ASN |-> Port22]))}

\* Whole runs over up to MaxDevices devices.
Api ==
    [device_pages    |-> Pages(SeqsUpTo(Devices, MaxDevices)),
     interface_pages |-> Pages({<<>>, <<PlainInterface>>}),
     vlan_pages      |-> Pages({<<>>, <<PlainInterface>>}),
     ip_details      |-> PlainDetails,
     port_details    |-> {Detail(None, None)},
     address_pages   |-> Pages({<<PlainAddress>>})]

\* Whole runs over up to MaxDevices devices whose interfaces and addresses
\* vary.
InterfaceApi ==
    [device_pages    |-> Pages(SeqsUpTo(Devices, MaxDevices)),
     interface_pages |-> Pages({<<>>, <<OtherInterface, PlainInterface>>}),
     vlan_pages      |-> Pages({<<>>, <<OtherInterface, PlainInterface>>}),
     ip_details      |-> {Detail(None, None)},
     port_details    |-> {Detail(None, None)},
     address_pages   |-> Pages({<<>>, <<PlainAddress>>})]

OneDevice == Pages({<<>>, <<Device(1, SW1)>>})

\* The interfaces of one device, with every shape of VLAN assignment.
VlanInterfaces ==
    {Interface(id, name, tagged, untagged) :
        id \in {10, 11}, name \in {Eth0, Eth1},
        tagged \in {None, Lst(<<>>), Lst(<<Vlan(200), Vlan(100)>>)},
        untagged \in {None, Vlan(1)}}

VlanApi ==
    [device_pages    |-> OneDevice,
     interface_pages |-> Pages({<<>>, <<PlainInterface>>}),
     vlan_pages      |-> Pages(SeqsUpTo(VlanInterfaces, MaxIfaces)),
     ip_details      |-> {Detail(None, None)},
     port_details    |-> {Detail(None, None)},
     address_pages   |-> Pages({<<PlainAddress>>})]

\* The detail record of one device: every address of up to MaxAddrLen
\* characters, and every shape of the custom field block.
AddressChars == {"1", "/"}
AllDetails ==
    {Detail(ip, cf) :
        ip \in {None} \cup
               {PrimaryIp(a) : a \in SeqsUpTo(AddressChars, MaxAddrLen)},
        cf \in {None, EmptyDict, Obj([ASN |-> Port22]), Obj([ASN |-> None]),
                Obj([role |-> Port22])}}

DetailApi ==
    [device_pages    |-> OneDevice,
     interface_pages |-> Pages({<<PlainInterface>>}),
     vlan_pages      |-> Pages({<<PlainInterface>>}),
     ip_details      |-> AllDetails,
     port_details    |-> AllDetails,
     address_pages   |-> Pages({<<PlainAddress>>})]

Next == Run(Api)
NextInterfaces == Run(InterfaceApi)
NextVlans == Run(VlanApi)
NextDetail == Run(DetailApi)

Spec == Init /\ [][Next]_vars
SpecInterfaces == Init /\ [][NextInterfaces]_vars
SpecVlans == Init /\ [][NextVlans]_vars
SpecDetail == Init /\ [][NextDetail]_vars

----------------------------------------------------------------------------
(* Properties.                                                             *)

Range(f) == {f[x] : x \in DOMAIN f}

\* A --list run that reached line 54 and printed its document.
Printed == args.list /\ stdout # <<>>
Doc == stdout[1]
AllHosts == Doc["all"].hosts
Hostvars == Doc["_meta"].hostvars

\* The name of the i-th device of the fetched list.
NameOf(i) == results[i].v.name
\* No later device of the fetched list bears the name of the i-th.
LastOfName(i) == \A j \in (i + 1)..Len(results) : NameOf(j) # NameOf(i)
DistinctNames ==
    \A i, j \in 1..Len(results) : NameOf(i) = NameOf(j) => i = j

\* The answer to the GET that method `via` issued in pass i of the device loop.
GetOf(i, via) ==
    requests[CHOOSE k \in DOMAIN requests :
                 requests[k].dev = i /\ requests[k].via = via]
\* The answers to the address queries of pass i, in the order issued.
AddressGets(i) ==
    LET OfPass(r) == r.dev = i /\ r.via = "_interface_ip"
    IN  SelectSeq(requests, OfPass)

NonSuccess(r) == r.status < 200 \/ r.status >= 300

\* C1 (as stated): in the document of every successful --list run, all.hosts
\* and _meta.hostvars have the same length and the same set of names, device
\* lists with a repeated name included.
C1_Bijection ==
    Printed =>
        /\ Len(AllHosts) = Cardinality(DOMAIN Hostvars)
        /\ Range(AllHosts) = DOMAIN Hostvars

\* C1 (amended): the names of all.hosts are exactly the keys of
\* _meta.hostvars; all.hosts has one element per fetched device and
\* _meta.hostvars one entry per distinct name, so the two lengths agree
\* exactly when no two fetched devices share a name.
C1_SameNames ==
    Printed =>
        /\ Range(AllHosts) = DOMAIN Hostvars
        /\ Len(AllHosts) = Len(results)
        /\ Cardinality(DOMAIN Hostvars) =
               Cardinality({NameOf(i) : i \in 1..Len(results)})
        /\ (Len(AllHosts) = Cardinality(DOMAIN Hostvars)) <=> DistinctNames

C1_Witness ==
    /\ Printed
    /\ Len(results) = 2
    /\ NameOf(1) = NameOf(2)
    /\ Len(AllHosts) = 2
    /\ Cardinality(DOMAIN Hostvars) = 1

\* C2: without --list (whatever --host is) no GET is ever issued and the
\* only document ever printed is {"_meta": {"hostvars": {}}}; a GET is
\* issued only when --list is set.
C2_NoListNoRequests ==
    /\ ~args.list =>
          /\ requests = <<>>
          /\ stdout \in {<<>>, <<("_meta" :> [hostvars |-> <<>>])>>}
          /\ pc = "exited" => stdout # <<>> /\ exc = "None"
    /\ requests # <<>> => args.list

C2_Witness ==
    /\ ~args.list
    /\ args.host # None
    /\ pc = "exited"
    /\ stdout = <<("_meta" :> [hostvars |-> <<>>])>>

\* The number of GETs of a complete --list run: the device list, four per
\* device, and one per interface of each device.
RECURSIVE InterfaceCount(_)
InterfaceCount(devs) ==
    IF devs = <<>> THEN 0
    ELSE Len(Head(devs).interfaces) + InterfaceCount(Tail(devs))

C7_OrderAndLastWins ==
    Printed =>
        /\ AllHosts = [i \in 1..Len(results) |-> NameOf(i)]
        /\ DOMAIN Hostvars = {NameOf(i) : i \in 1..Len(results)}
        /\ \A i \in 1..Len(results) :
              LastOfName(i) =>
                  /\ Hostvars[NameOf(i)].ansible_host =
                         device_list[i].ansible_ssh_host
                  /\ Hostvars[NameOf(i)].ansible_port =
                         device_list[i].ansible_ssh_port
                  /\ Hostvars[NameOf(i)].interfaces = device_list[i].interfaces
                  /\ Hostvars[NameOf(i)].vlans = device_list[i].vlans

C7_Witness ==
    /\ Printed
    /\ Len(results) = 2
    /\ NameOf(1) = NameOf(2)
    /\ device_list[1].ansible_ssh_host # device_list[2].ansible_ssh_host
    /\ Hostvars[NameOf(1)].ansible_host = device_list[2].ansible_ssh_host

\* The custom field block of a detail record carries no SSH port slot.
NoPortSlot(detail) ==
    \/ detail.v.custom_fields = None
    \/ detail.v.custom_fields = EmptyDict
    \/ "ASN" \notin DOMAIN detail.v.custom_fields.v

\* C4: a device whose detail record has no SSH port slot (custom_fields
\* null, empty, or without the key 'ASN') never fails the run, and its
\* ansible_port is null; with the slot present, ansible_port is its value.
C4_MissingPortIsNull ==
    \A k \in DOMAIN requests :
        LET r == requests[k] IN
        (r.via = "_device_ssh_port" /\ ~NonSuccess(r)) =>
            /\ NoPortSlot(r.body) => exc # "KeyError"
            /\ Printed =>
                  Hostvars[NameOf(r.dev)].ansible_port =
                      IF NoPortSlot(r.body) THEN None
                      ELSE r.body.v.custom_fields.v.ASN

\* C5 (as stated): every fetched device whose detail record has primary_ip
\* null is listed in all.hosts and has a hostvars entry with ansible_host
\* null; all.hosts has as many elements as the fetched device list.
C5_NullIpKept ==
    Printed =>
        /\ Len(AllHosts) = Len(results)
        /\ \A i \in 1..Len(results) :
              GetOf(i, "_device_primary_ip").body.v.primary_ip = None =>
                  /\ NameOf(i) \in Range(AllHosts)
                  /\ NameOf(i) \in DOMAIN Hostvars
                  /\ Hostvars[NameOf(i)].ansible_host = None

\* C5 (amended): such a device is listed in all.hosts (at its own position)
\* and its name has a hostvars entry; the entry has ansible_host null when
\* the device is the last of the list with its name (otherwise the entry is
\* the later device's); all.hosts has as many elements as the device list.
C5_NullIpKeptLast ==
    Printed =>
        /\ Len(AllHosts) = Len(results)
        /\ \A i \in 1..Len(results) :
              GetOf(i, "_device_primary_ip").body.v.primary_ip = None =>
                  /\ AllHosts[i] = NameOf(i)
                  /\ NameOf(i) \in DOMAIN Hostvars
                  /\ device_list[i].ansible_ssh_host = None
                  /\ LastOfName(i) => Hostvars[NameOf(i)].ansible_host = None

C5_Witness ==
    /\ Printed
    /\ Len(results) = 2
    /\ NameOf(1) # NameOf(2)
    /\ GetOf(1, "_device_primary_ip").body.v.primary_ip = None
    /\ GetOf(2, "_device_primary_ip").body.v.primary_ip # None
    /\ Hostvars[NameOf(1)].ansible_host = None
    /\ Hostvars[NameOf(2)].ansible_host # None

\* The vids of a list of VLAN records, in its order.
Vids(vl) == [k \in 1..Len(vl) |-> vl[k].v.vid]

\* C6: the vlans sequence of a device holds one record per interface the
\* VLAN pass fetched, in that order: the interface's name and id, the vid of
\* its untagged VLAN or null, and the vids of its tagged VLANs in the order
\* received, an empty list when tagged_vlans is null or empty.
C6_VlanRecords ==
    \A i \in 1..Len(device_list) :
        LET ifs == GetOf(i, "_process_interface_vlans").body.v.results.v
            vl  == device_list[i].vlans
        IN  /\ Len(vl) = Len(ifs)
            /\ \A k \in 1..Len(ifs) :
                  /\ DOMAIN vl[k] =
                        {"interface", "int_id", "untagged_vlan", "tagged_vlans"}
                  /\ vl[k].interface = ifs[k].v.name
                  /\ vl[k].int_id = ifs[k].v.id
                  /\ vl[k].untagged_vlan =
                        IF ifs[k].v.untagged_vlan = None THEN None
                        ELSE ifs[k].v.untagged_vlan.v.vid
                  /\ vl[k].tagged_vlans =
                        IF ifs[k].v.tagged_vlans \in {None, Lst(<<>>)}
                        THEN Lst(<<>>)
                        ELSE Lst(Vids(ifs[k].v.tagged_vlans.v))
            /\ (Printed /\ LastOfName(i)) => Hostvars[NameOf(i)].vlans = vl

C6_Witness ==
    /\ Printed
    /\ Len(device_list) = 1
    /\ Len(device_list[1].vlans) = 2
    /\ device_list[1].vlans[1].tagged_vlans = Lst(<<Num(200), Num(100)>>)
    /\ device_list[1].vlans[1].untagged_vlan = Num(1)
    /\ device_list[1].vlans[1].int_id = Num(11)
    /\ device_list[1].vlans[2].tagged_vlans = Lst(<<>>)
    /\ device_list[1].vlans[2].untagged_vlan = None
    /\ GetOf(1, "_process_interface_vlans").body.v.results.v[2].v.tagged_vlans
           = None

\* s is the part of the address a before its first '/': a prefix of a that
\* holds no '/' and is all of a or is followed in a by a '/'.
BeforeFirstSlash(s, a) ==
    /\ Len(s) <= Len(a)
    /\ \A k \in 1..Len(s) : s[k] = a[k] /\ s[k] # "/"
    /\ Len(s) < Len(a) => a[Len(s) + 1] = "/"

\* C8: for a device whose detail record has a primary_ip, ansible_host is
\* the part of primary_ip.address before its first '/': the whole address
\* when it holds no '/', and never a value that holds a '/'.
C8_NetmaskStripped ==
    /\ \A i \in 1..Len(device_list) :
          LET ip   == GetOf(i, "_device_primary_ip").body.v.primary_ip
              host == device_list[i].ansible_ssh_host
          IN  ip # None =>
                  /\ host.t = "str"
                  /\ BeforeFirstSlash(host.v, ip.v.address.v)
                  /\ (Printed /\ LastOfName(i)) =>
                        Hostvars[NameOf(i)].ansible_host = host
    /\ Printed =>
          \A n \in DOMAIN Hostvars :
              Hostvars[n].ansible_host # None =>
                  "/" \notin Range(Hostvars[n].ansible_host.v)

C8_Witness ==
    /\ Printed
    /\ Len(results) = 1
    /\ GetOf(1, "_device_primary_ip").body.v.primary_ip
           = PrimaryIp(<<"1", "/", "/">>)
    /\ Hostvars[NameOf(1)].ansible_host = Str(<<"1">>)

C8_WitnessNoSlash ==
    /\ Printed
    /\ Len(results) = 1
    /\ GetOf(1, "_device_primary_ip").body.v.primary_ip
           = PrimaryIp(<<"1", "1", "1">>)
    /\ Hostvars[NameOf(1)].ansible_host = Str(<<"1", "1", "1">>)

\* The interfaces sequence C9 describes for pass i of the device loop.
ExpectedInterfaces(i) ==
    LET ifs == GetOf(i, "_device_interfaces").body.v.results.v
        ips == AddressGets(i)
    IN  [k \in 1..Len(ifs) |->
            [interface_name |-> ifs[k].v.name,
             interface_id   |-> ifs[k].v.id,
             ip_address     |-> ips[k].body.v.results]]

HostvarKeys == {"ansible_host", "ansible_port", "interfaces", "vlans"}

\* C9 (as stated): the hostvars entry of every fetched device has exactly
\* the keys ansible_host, ansible_port, interfaces and vlans, and its
\* interfaces holds, in the order returned, one record per interface
\* returned for that device: name, id, and the address records returned for
\* that interface id, unmodified.
C9_InterfaceRecords ==
    Printed =>
        \A i \in 1..Len(results) :
            /\ DOMAIN Hostvars[NameOf(i)] = HostvarKeys
            /\ Hostvars[NameOf(i)].interfaces = ExpectedInterfaces(i)

\* C9 (amended): this holds of every fetched device that is the last of the
\* list with its name; the entry of a name always has exactly the four keys,
\* and the record built for every device holds those interfaces.
C9_InterfaceRecordsLast ==
    Printed =>
        \A i \in 1..Len(results) :
            /\ DOMAIN Hostvars[NameOf(i)] = HostvarKeys
            /\ device_list[i].interfaces = ExpectedInterfaces(i)
            /\ Len(AddressGets(i)) = Len(device_list[i].interfaces)
            /\ LastOfName(i) =>
                  Hostvars[NameOf(i)].interfaces = ExpectedInterfaces(i)

C9_Witness ==
    /\ Printed
    /\ Len(results) = 2
    /\ NameOf(1) # NameOf(2)
    /\ Len(Hostvars[NameOf(2)].interfaces) = 2
    /\ Hostvars[NameOf(2)].interfaces[1].interface_id = Num(11)
    /\ Hostvars[NameOf(2)].interfaces[1].ip_address = Lst(<<>>)
    /\ Hostvars[NameOf(2)].interfaces[2].interface_id = Num(10)
    /\ Hostvars[NameOf(2)].interfaces[2].ip_address = Lst(<<PlainAddress>>)
    /\ Hostvars[NameOf(1)].interfaces = <<>>

\* C10: in every hostvars entry, interfaces and vlans have the same length
\* and describe, index by index, the same interface id and name, also when
\* the API answers the two interface queries of a device differently.
C10_SameInterfaces ==
    Printed =>
        \A n \in DOMAIN Hostvars :
            /\ Len(Hostvars[n].interfaces) = Len(Hostvars[n].vlans)
            /\ \A k \in 1..Len(Hostvars[n].interfaces) :
                  /\ Hostvars[n].vlans[k].int_id =
                         Hostvars[n].interfaces[k].interface_id
                  /\ Hostvars[n].vlans[k].interface =
                         Hostvars[n].interfaces[k].interface_name

====
